---- MODULE Spec2Model ----
(***************************************************************************)
(* Model of SingleLinkedList<Type> (single-linked-list.h).                 *)
(*                                                                         *)
(* The heap is a finite pool of Node cells 1..MaxNodes.  A node reference  *)
(* (a Node pointer) is 0 for nullptr, n in 1..MaxNodes for a heap node,    *)
(* and -l for the address of the sentinel head_ embedded in list object l. *)
(* List objects 1..NumLists are the caller's lists; TempAssign and         *)
(* TempCopy are the stack objects `temp` of operator= and of the copy      *)
(* constructor.  Every method is an operator from a memory record to a     *)
(* memory record; the actions apply them atomically (the design is         *)
(* single-threaded and every call runs to completion).                     *)
(***************************************************************************)
EXTENDS Integers, Sequences, FiniteSets, TLC

\* ---- bounds ----
\* NumLists: list objects of the caller; MaxNodes: cells of the heap;
\* MaxVal: element values 1..MaxVal; MaxLen: longest list the caller builds;
\* NumIters: iterators the caller holds
NumLists == 2
MaxNodes == 4
MaxVal == 2
MaxLen == 2
NumIters == 1

Lists == 1..NumLists
TempAssign == NumLists + 1
TempCopy == NumLists + 2
Slots == 1..(NumLists + 2)
Nodes == 1..MaxNodes
Values == 1..MaxVal
Iters == 1..NumIters
nullptr == 0

\* &head_ of list object l
head_(l) == 0 - l

Refs == {head_(l) : l \in Slots} \cup Nodes

\* next_node, value: the fields of every Node (sentinels included);
\* allocated: heap nodes obtained from new and not yet deleted;
\* size_: the size_ field of every list object; exists: list objects whose
\* constructor has completed and whose destructor has not run;
\* iter: the node_ field of the caller's iterators; dangling: iterators whose
\* referent has been deleted or destroyed since they were obtained;
\* last: the most recent call: its name, the node of the iterator it
\* returned (InsertAfter, EraseAfter), whether it left by an exception, how
\* many nodes it obtained from new, how many it passed to delete and, for a
\* constructor that threw, the
\* size_ and first node the object under construction was left with.
VARIABLES next_node, value, allocated, size_, exists, iter, dangling, last

vars == <<next_node, value, allocated, size_, exists, iter, dangling, last>>

\* ---- memory records ----
\* budget: how many further allocations succeed before operator new throws;
\* threw: an exception is propagating; ret: the node of the returned
\* iterator; news, frees: the nodes obtained from new and passed to delete
\* during the call, in order.
Mem(b) ==
  [next_node |-> next_node, value |-> value, allocated |-> allocated,
   size_ |-> size_, budget |-> b, threw |-> FALSE, ret |-> nullptr,
   news |-> <<>>, frees |-> <<>>]

Min(S) == CHOOSE x \in S : \A y \in S : x <= y

\* new Node(val, next): throws std::bad_alloc when the allocation fails
NewNode(s, val, next) ==
  LET free == Nodes \ s.allocated IN
  IF s.budget = 0 \/ free = {}
    THEN [s EXCEPT !.threw = TRUE]
    ELSE LET n == Min(free) IN
         [s EXCEPT !.allocated = @ \cup {n},
                   !.value = [@ EXCEPT ![n] = val],
                   !.next_node = [@ EXCEPT ![n] = next],
                   !.budget = @ - 1,
                   !.news = Append(@, n),
                   !.ret = n]

\* delete p: the cell goes back to the pool; its contents are dead
DeleteNode(s, p) ==
  [s EXCEPT !.allocated = @ \ {p},
            !.frees = Append(@, p),
            !.value = [@ EXCEPT ![p] = 0],
            !.next_node = [@ EXCEPT ![p] = nullptr]]

\* Node head_; size_t size_ = 0;  (default member initialisers)
MemberInit(s, this) ==
  [s EXCEPT !.next_node = [@ EXCEPT ![head_(this)] = nullptr],
            !.size_ = [@ EXCEPT ![this] = 0]]

\* faulty variant: the size is incremented before the node is allocated
PushFront_CountsFirst(s, this, val) ==
  LET c == [s EXCEPT !.size_ = [@ EXCEPT ![this] = @ + 1]]
      a == NewNode(c, val, c.next_node[head_(this)]) IN
  IF a.threw THEN a
  ELSE [a EXCEPT !.next_node = [@ EXCEPT ![head_(this)] = a.ret],
                 !.ret = nullptr]

PushFront(s, this, val) ==
  LET a == NewNode(s, val, s.next_node[head_(this)]) IN
  IF a.threw THEN a
  ELSE [a EXCEPT !.next_node = [@ EXCEPT ![head_(this)] = a.ret],
                 !.size_ = [@ EXCEPT ![this] = @ + 1],
                 !.ret = nullptr]

\* faulty variant: with two elements or more, the second one is removed
PopFront_Second(s, this) ==
  LET first == s.next_node[head_(this)]
      temp == s.next_node[first] IN
  IF temp = nullptr
    THEN LET d == DeleteNode(s, first) IN
         [d EXCEPT !.next_node = [@ EXCEPT ![head_(this)] = nullptr],
                   !.size_ = [@ EXCEPT ![this] = @ - 1]]
    ELSE LET d == DeleteNode(s, temp) IN
         [d EXCEPT !.next_node = [@ EXCEPT ![first] = s.next_node[temp]],
                   !.size_ = [@ EXCEPT ![this] = @ - 1]]

\* faulty variant: the size is not decremented
PopFront_KeepSize(s, this) ==
  LET first == s.next_node[head_(this)]
      temp == s.next_node[first]
      d == DeleteNode(s, first) IN
  [d EXCEPT !.next_node = [@ EXCEPT ![head_(this)] = temp]]

PopFront(s, this) ==
  LET first == s.next_node[head_(this)]
      temp == s.next_node[first]
      d == DeleteNode(s, first) IN
  [d EXCEPT !.next_node = [@ EXCEPT ![head_(this)] = temp],
            !.size_ = [@ EXCEPT ![this] = @ - 1]]

\* faulty variant: the size is not incremented
InsertAfter_KeepSize(s, this, pos, val) ==
  LET a == NewNode(s, val, s.next_node[pos]) IN
  IF a.threw THEN a
  ELSE [a EXCEPT !.next_node = [@ EXCEPT ![pos] = a.ret]]

\* faulty variant: the new node is linked after the sentinel, whatever pos is
InsertAfter_AtFront(s, this, pos, val) ==
  LET a == NewNode(s, val, s.next_node[head_(this)]) IN
  IF a.threw THEN a
  ELSE [a EXCEPT !.next_node = [@ EXCEPT ![head_(this)] = a.ret],
                 !.size_ = [@ EXCEPT ![this] = @ + 1]]

InsertAfter(s, this, pos, val) ==
  LET a == NewNode(s, val, s.next_node[pos]) IN
  IF a.threw THEN a
  ELSE [a EXCEPT !.next_node = [@ EXCEPT ![pos] = a.ret],
                 !.size_ = [@ EXCEPT ![this] = @ + 1]]

\* faulty variant: the returned iterator is pos itself
EraseAfter_ReturnsPos(s, this, pos) ==
  LET victim == s.next_node[pos]
      temp == s.next_node[victim]
      d == DeleteNode(s, victim) IN
  [d EXCEPT !.next_node = [@ EXCEPT ![pos] = temp],
            !.size_ = [@ EXCEPT ![this] = @ - 1],
            !.ret = pos]

\* faulty variant: the value of the successor is moved into the erased position and
\* the successor's node is the one deleted
EraseAfter_Shift(s, this, pos) ==
  LET victim == s.next_node[pos]
      temp == s.next_node[victim] IN
  IF temp = nullptr
    THEN LET d == DeleteNode(s, victim) IN
         [d EXCEPT !.next_node = [@ EXCEPT ![pos] = nullptr],
                   !.size_ = [@ EXCEPT ![this] = @ - 1],
                   !.ret = nullptr]
    ELSE LET d == DeleteNode(s, temp) IN
         [d EXCEPT !.value = [@ EXCEPT ![victim] = s.value[temp]],
                   !.next_node = [@ EXCEPT ![victim] = s.next_node[temp]],
                   !.size_ = [@ EXCEPT ![this] = @ - 1],
                   !.ret = victim]

EraseAfter(s, this, pos) ==
  LET victim == s.next_node[pos]
      temp == s.next_node[victim]
      d == DeleteNode(s, victim) IN
  [d EXCEPT !.next_node = [@ EXCEPT ![pos] = temp],
            !.size_ = [@ EXCEPT ![this] = @ - 1],
            !.ret = temp]

RECURSIVE ClearLoop(_, _)
\* faulty variant: the loop stops after the first node and drops the rest
ClearLoop_FirstOnly(s, this) ==
  LET first == s.next_node[head_(this)] IN
  IF first = nullptr THEN s
  ELSE LET d == DeleteNode(s, first) IN
       [d EXCEPT !.next_node = [@ EXCEPT ![head_(this)] = nullptr]]

ClearLoop(s, this) ==
  LET first == s.next_node[head_(this)] IN
  IF first = nullptr THEN s
  ELSE LET temp == s.next_node[first]
           d == DeleteNode(s, first) IN
       ClearLoop([d EXCEPT !.next_node = [@ EXCEPT ![head_(this)] = temp]], this)

Clear(s, this) ==
  LET c == ClearLoop(s, this) IN
  [c EXCEPT !.size_ = [@ EXCEPT ![this] = 0]]

\* faulty variant: the destructor frees nothing
Destructor_Nothing(s, this) == s

\* ~SingleLinkedList()
Destructor(s, this) == Clear(s, this)

\* faulty variant: this takes the chain and the size of other, and other
\* keeps them
Swap_Alias(s, this, other) ==
  [s EXCEPT !.next_node = [@ EXCEPT ![head_(this)] = s.next_node[head_(other)]],
            !.size_ = [@ EXCEPT ![this] = s.size_[other]]]

\* faulty variant: the node chains are exchanged, the sizes are not
Swap_HeadsOnly(s, this, other) ==
  [s EXCEPT !.next_node = [@ EXCEPT ![head_(this)] = s.next_node[head_(other)],
                                    ![head_(other)] = s.next_node[head_(this)]]]

Swap(s, this, other) ==
  [s EXCEPT !.next_node = [@ EXCEPT ![head_(this)] = s.next_node[head_(other)],
                                    ![head_(other)] = s.next_node[head_(this)]],
            !.size_ = [@ EXCEPT ![this] = s.size_[other],
                                ![other] = s.size_[this]]]

\* the free function Swap(lhs, rhs): lhs.Swap(rhs)
SwapFree(s, lhs, rhs) == Swap(s, lhs, rhs)

\* SingleLinkedList() {}
DefaultCtor(s, this) == MemberInit(s, this)

\* SingleLinkedList(std::initializer_list<Type> values): PushFront from the
\* last value to the first.  An exception leaves the constructor without
\* running ~SingleLinkedList (the object was never constructed) and head_
\* has no destructor of its own.
RECURSIVE InitLoop(_, _, _, _)
InitLoop(s, this, values, i) ==
  IF i = 0 THEN s
  ELSE LET p == PushFront(s, this, values[i]) IN
       IF p.threw THEN p ELSE InitLoop(p, this, values, i - 1)

\* faulty variant: the values are pushed from the first to the last
InitListCtor_Forward(s, this, values) ==
  InitLoop(MemberInit(s, this), this,
           [i \in 1..Len(values) |-> values[Len(values) + 1 - i]], Len(values))

InitListCtor(s, this, values) ==
  InitLoop(MemberInit(s, this), this, values, Len(values))

\* SingleLinkedList(const SingleLinkedList& other)
\* The range-for walks other; every step calls this->InsertAfter with the
\* iterator into temp.  An exception unwinds through ~temp.
RECURSIVE CopyLoop(_, _, _, _)
CopyLoop(s, this, cur, temp_it) ==
  IF cur = nullptr THEN s
  ELSE LET r == InsertAfter(s, this, temp_it, s.value[cur]) IN
       IF r.threw THEN r
       ELSE CopyLoop(r, this, r.next_node[cur], r.ret)

\* faulty variant: the new list adopts the nodes of the source
CopyCtor_Shallow(s, this, other) ==
  LET s0 == MemberInit(s, this) IN
  [s0 EXCEPT !.next_node = [@ EXCEPT ![head_(this)] = s0.next_node[head_(other)]],
             !.size_ = [@ EXCEPT ![this] = s0.size_[other]]]

CopyCtor(s, this, other) ==
  LET s0 == MemberInit(s, this)
      s1 == DefaultCtor(s0, TempCopy)
      s2 == CopyLoop(s1, this, s1.next_node[head_(other)], head_(TempCopy)) IN
  IF s2.threw THEN Destructor(s2, TempCopy)
  ELSE LET s3 == [s2 EXCEPT !.size_ = [@ EXCEPT ![TempCopy] = s2.size_[other]]]
           s4 == Swap(s3, this, TempCopy) IN
       Destructor(s4, TempCopy)

\* an object whose constructor threw never existed: its storage (head_,
\* size_) is gone
EndOfStorage(s, obj) ==
  [s EXCEPT !.next_node = [@ EXCEPT ![head_(obj)] = nullptr],
            !.size_ = [@ EXCEPT ![obj] = 0]]

\* faulty variant: the target is cleared before the copy is made
Assign_ClearFirst(s, this, rhs) ==
  IF this /= rhs
    THEN LET t == CopyCtor(Clear(s, this), TempAssign, rhs) IN
         IF t.threw THEN EndOfStorage(t, TempAssign)
         ELSE Destructor(Swap(t, this, TempAssign), TempAssign)
    ELSE s

\* faulty variant: no test for self-assignment
Assign_NoSelfTest(s, this, rhs) ==
  LET t == CopyCtor(s, TempAssign, rhs) IN
  IF t.threw THEN EndOfStorage(t, TempAssign)
  ELSE Destructor(Swap(t, this, TempAssign), TempAssign)

\* operator=(const SingleLinkedList& rhs)
Assign(s, this, rhs) ==
  IF this /= rhs
    THEN LET t == CopyCtor(s, TempAssign, rhs) IN
         IF t.threw THEN EndOfStorage(t, TempAssign)
         ELSE Destructor(Swap(t, this, TempAssign), TempAssign)
    ELSE s

\* ---- observers ----
GetSize(s, this) == s.size_[this]
IsEmpty(s, this) == IF s.size_[this] = 0 THEN TRUE ELSE FALSE
before_begin(this) == head_(this)
begin(s, this) == s.next_node[head_(this)]
end == nullptr


\* std::equal(first1, last1, first2, last2) on forward iterators, last1 and
\* last2 being end(): walk both ranges together; equal when every pair of
\* values is equal and both ranges end at the same step
RECURSIVE std_equal(_, _, _)
\* faulty variant: the ranges are compared only up to the end of the shorter one
std_equal_Prefix(s, p, q) ==
  IF p /= nullptr /\ q /= nullptr
    THEN IF s.value[p] /= s.value[q] THEN FALSE
         ELSE std_equal(s, s.next_node[p], s.next_node[q])
    ELSE TRUE

std_equal(s, p, q) ==
  IF p /= nullptr /\ q /= nullptr
    THEN IF s.value[p] /= s.value[q] THEN FALSE
         ELSE std_equal(s, s.next_node[p], s.next_node[q])
    ELSE p = nullptr /\ q = nullptr

\* operator==(lhs, rhs) and operator!=(lhs, rhs)
operator_eq(s, lhs, rhs) == std_equal(s, begin(s, lhs), begin(s, rhs))
operator_ne(s, lhs, rhs) == ~operator_eq(s, lhs, rhs)

\* std::lexicographical_compare(first1, last1, first2, last2), last1 and
\* last2 being end(): at the first pair of values that differ the smaller
\* value decides; when one range ends first, the first range is less exactly
\* if it is the one that ended and the second has not
RECURSIVE std_lexicographical_compare(_, _, _)
\* faulty variant: a first range that ends together with the second counts
\* as less
std_lexicographical_compare_OrEqual(s, p, q) ==
  IF p /= nullptr /\ q /= nullptr
    THEN IF s.value[p] < s.value[q] THEN TRUE
         ELSE IF s.value[q] < s.value[p] THEN FALSE
         ELSE std_lexicographical_compare(s, s.next_node[p], s.next_node[q])
    ELSE p = nullptr

\* faulty variant: a pair whose first value is the greater one is skipped
\* instead of deciding
std_lexicographical_compare_NoGreater(s, p, q) ==
  IF p /= nullptr /\ q /= nullptr
    THEN IF s.value[p] < s.value[q] THEN TRUE
         ELSE std_lexicographical_compare(s, s.next_node[p], s.next_node[q])
    ELSE p = nullptr /\ q /= nullptr

std_lexicographical_compare(s, p, q) ==
  IF p /= nullptr /\ q /= nullptr
    THEN IF s.value[p] < s.value[q] THEN TRUE
         ELSE IF s.value[q] < s.value[p] THEN FALSE
         ELSE std_lexicographical_compare(s, s.next_node[p], s.next_node[q])
    ELSE p = nullptr /\ q /= nullptr

\* operator<, operator>, operator<=, operator>=
operator_lt(s, lhs, rhs) ==
  std_lexicographical_compare(s, begin(s, lhs), begin(s, rhs))
operator_gt(s, lhs, rhs) == operator_lt(s, rhs, lhs)
operator_le(s, lhs, rhs) == ~operator_gt(s, lhs, rhs)
operator_ge(s, lhs, rhs) == ~operator_lt(s, lhs, rhs)

\* ---- views ----
\* the nodes visited by for (it = begin(); it != end(); ++it), at most k of them
RECURSIVE Walk(_, _, _)
Walk(nx, p, k) ==
  IF p = nullptr \/ k = 0 THEN <<>>
  ELSE <<p>> \o Walk(nx, nx[p], k - 1)

Chain(s, this) == Walk(s.next_node, s.next_node[head_(this)], MaxNodes + 1)
Elems(s, this) == [i \in 1..Len(Chain(s, this)) |-> s.value[Chain(s, this)[i]]]
Range(f) == {f[i] : i \in DOMAIN f}

Cur == Mem(0)
SeqsUpTo(n) == UNION {[1..k -> Values] : k \in 0..n}

\* nodes that are allocated and that no list object reaches any more
Reached(s) == UNION {Range(Chain(s, l)) : l \in Slots}
Leaked(s) == s.allocated \ Reached(s)

\* the memory a failed constructor leaves behind: the object's storage is
\* gone, and the nodes nothing references any more stay allocated, their
\* fields out of anyone's reach
AfterFailedCtor(s, this) ==
  LET e == EndOfStorage(s, this)
      lost == Leaked(e) IN
  [e EXCEPT !.next_node = [r \in Refs |-> IF r \in lost THEN nullptr ELSE @[r]],
            !.value = [n \in Nodes |-> IF n \in lost THEN 0 ELSE @[n]]]

\* ---- initial state: no list object has been constructed ----
Init ==
  /\ next_node = [r \in Refs |-> nullptr]
  /\ value = [n \in Nodes |-> 0]
  /\ allocated = {}
  /\ size_ = [l \in Slots |-> 0]
  /\ exists = {}
  /\ iter = [i \in Iters |-> nullptr]
  /\ dangling = {}
  /\ last = [op |-> "none", ret |-> nullptr, threw |-> FALSE, news |-> 0,
             frees |-> 0, left |-> [size_ |-> 0, begin |-> nullptr]]

\* a call that returns nothing, a call that returns an iterator, and a
\* constructor of object this
Call(op, r) ==
  [op |-> op, ret |-> nullptr, threw |-> r.threw, news |-> Len(r.news),
   frees |-> Len(r.frees), left |-> [size_ |-> 0, begin |-> nullptr]]
CallIt(op, r) ==
  [op |-> op, ret |-> r.ret, threw |-> r.threw, news |-> Len(r.news),
   frees |-> Len(r.frees), left |-> [size_ |-> 0, begin |-> nullptr]]
CallCtor(op, r, this) ==
  [op |-> op, ret |-> nullptr, threw |-> r.threw, news |-> Len(r.news),
   frees |-> Len(r.frees),
   left |-> IF r.threw THEN [size_ |-> GetSize(r, this), begin |-> begin(r, this)]
            ELSE [size_ |-> 0, begin |-> nullptr]]

\* the memory after the call, and the iterators it left dangling
Commit(r, ex, rec) ==
  /\ next_node' = r.next_node
  /\ value' = r.value
  /\ allocated' = r.allocated
  /\ size_' = r.size_
  /\ exists' = ex
  /\ dangling' = dangling \cup {i \in Iters : iter[i] \in Range(r.frees)
                                  \/ \E l \in exists \ ex : iter[i] = head_(l)}
  /\ last' = rec
  /\ UNCHANGED iter

\* pos references the sentinel or a real element of list this
PosIn(this, pos) ==
  pos = head_(this) \/ pos \in Range(Chain(Cur, this))

Usable(i) == i \notin dangling /\ iter[i] /= nullptr

\* ---- actions: one per public operation ----
ConstructDefault(l) ==
  /\ l \notin exists
  /\ \E r \in {DefaultCtor(Cur, l)} :
     Commit(r, exists \cup {l}, CallCtor("DefaultCtor", r, l))

ConstructFromList(l, values, b) ==
  /\ l \notin exists
  /\ \E r \in {InitListCtor(Mem(b), l, values)} :
     IF r.threw
       THEN Commit(AfterFailedCtor(r, l), exists, CallCtor("InitListCtor", r, l))
       ELSE Commit(r, exists \cup {l}, CallCtor("InitListCtor", r, l))

ConstructCopy(l, other, b) ==
  /\ l \notin exists
  /\ other \in exists
  /\ \E r \in {CopyCtor(Mem(b), l, other)} :
     IF r.threw
       THEN Commit(AfterFailedCtor(r, l), exists, CallCtor("CopyCtor", r, l))
       ELSE Commit(r, exists \cup {l}, CallCtor("CopyCtor", r, l))

Destroy(l) ==
  /\ l \in exists
  /\ \E r \in {Destructor(Cur, l)} :
     Commit(r, exists \ {l}, Call("Destructor", r))

DoClear(l) ==
  /\ l \in exists
  /\ \E r \in {Clear(Cur, l)} :
     Commit(r, exists, Call("Clear", r))

\* the caller lets no list grow beyond MaxLen elements
DoPushFront(l, v, b) ==
  /\ l \in exists
  /\ GetSize(Cur, l) < MaxLen
  /\ \E r \in {PushFront(Mem(b), l, v)} :
     Commit(r, exists, Call("PushFront", r))

DoPopFront(l) ==
  /\ l \in exists
  /\ ~IsEmpty(Cur, l)
  /\ \E r \in {PopFront(Cur, l)} :
     Commit(r, exists, Call("PopFront", r))

\* pos is any iterator the caller can form on list l: before_begin(), or an
\* iterator advanced from begin() to a real element
DoInsertAfter(l, pos, v, b) ==
  /\ l \in exists
  /\ pos /= nullptr
  /\ PosIn(l, pos)
  /\ GetSize(Cur, l) < MaxLen
  /\ \E r \in {InsertAfter(Mem(b), l, pos, v)} :
     Commit(r, exists, CallIt("InsertAfter", r))

DoEraseAfter(l, pos) ==
  /\ l \in exists
  /\ pos /= nullptr
  /\ PosIn(l, pos)
  /\ next_node[pos] /= nullptr
  /\ \E r \in {EraseAfter(Cur, l, pos)} :
     Commit(r, exists, CallIt("EraseAfter", r))

DoSwap(l, other) ==
  /\ l \in exists
  /\ other \in exists
  /\ \E r \in {Swap(Cur, l, other)} :
     Commit(r, exists, Call("Swap", r))

DoSwapFree(lhs, rhs) ==
  /\ lhs \in exists
  /\ rhs \in exists
  /\ \E r \in {SwapFree(Cur, lhs, rhs)} :
     Commit(r, exists, Call("Swap(lhs, rhs)", r))

DoAssign(l, rhs, b) ==
  /\ l \in exists
  /\ rhs \in exists
  /\ \E r \in {Assign(Mem(b), l, rhs)} :
     Commit(r, exists, Call("Assign", r))

\* ---- the caller's iterators ----
SetIter(i, p, rec) ==
  /\ iter' = [iter EXCEPT ![i] = p]
  /\ dangling' = dangling \ {i}
  /\ last' = rec
  /\ UNCHANGED <<next_node, value, allocated, size_, exists>>

IterBeforeBegin(i, l) ==
  /\ l \in exists
  /\ SetIter(i, before_begin(l),
             Call("before_begin", Cur))

IterBegin(i, l) ==
  /\ l \in exists
  /\ SetIter(i, begin(Cur, l),
             Call("begin", Cur))

IterEnd(i) ==
  SetIter(i, end, Call("end", Cur))

\* operator++: node_ = node_->next_node
IterIncrement(i) ==
  /\ Usable(i)
  /\ SetIter(i, next_node[iter[i]],
             Call("operator++", Cur))

\* *it = v through a mutable iterator it on a real element of list l
WriteThrough(l, pos, v) ==
  /\ l \in exists
  /\ pos \in Range(Chain(Cur, l))
  /\ \E r \in {[Cur EXCEPT !.value = [@ EXCEPT ![pos] = v]]} :
     Commit(r, exists, Call("operator*", r))

\* the operations on list objects
Next ==
  \/ \E l \in Lists : ConstructDefault(l)
  \/ \E l \in Lists, values \in SeqsUpTo(MaxLen), b \in 0..MaxLen : ConstructFromList(l, values, b)
  \/ \E l \in Lists, other \in Lists, b \in 0..MaxNodes : ConstructCopy(l, other, b)
  \/ \E l \in Lists : Destroy(l)
  \/ \E l \in Lists : DoClear(l)
  \/ \E l \in Lists, v \in Values, b \in 0..1 : DoPushFront(l, v, b)
  \/ \E l \in Lists : DoPopFront(l)
  \/ \E l \in Lists, pos \in Refs, v \in Values, b \in 0..1 : DoInsertAfter(l, pos, v, b)
  \/ \E l \in Lists, pos \in Refs : DoEraseAfter(l, pos)
  \/ \E l \in Lists, other \in Lists : DoSwap(l, other)
  \/ \E lhs \in Lists, rhs \in Lists : DoSwapFree(lhs, rhs)
  \/ \E l \in Lists, rhs \in Lists, b \in 0..MaxNodes : DoAssign(l, rhs, b)
  \/ \E l \in Lists, pos \in Nodes, v \in Values : WriteThrough(l, pos, v)

Spec == Init /\ [][Next]_vars

\* the executions in which no allocation fails: a call is made only where
\* every new it performs succeeds
NextNoFail ==
  \/ \E l \in Lists : ConstructDefault(l)
  \/ \E l \in Lists, values \in SeqsUpTo(MaxLen) :
       ConstructFromList(l, values, MaxLen) /\ ~last'.threw
  \/ \E l \in Lists, other \in Lists : ConstructCopy(l, other, MaxNodes) /\ ~last'.threw
  \/ \E l \in Lists : Destroy(l)
  \/ \E l \in Lists : DoClear(l)
  \/ \E l \in Lists, v \in Values : DoPushFront(l, v, 1) /\ ~last'.threw
  \/ \E l \in Lists : DoPopFront(l)
  \/ \E l \in Lists, pos \in Refs, v \in Values :
       DoInsertAfter(l, pos, v, 1) /\ ~last'.threw
  \/ \E l \in Lists, pos \in Refs : DoEraseAfter(l, pos)
  \/ \E l \in Lists, other \in Lists : DoSwap(l, other)
  \/ \E lhs \in Lists, rhs \in Lists : DoSwapFree(lhs, rhs)
  \/ \E l \in Lists, rhs \in Lists : DoAssign(l, rhs, MaxNodes) /\ ~last'.threw
  \/ \E l \in Lists, pos \in Nodes, v \in Values : WriteThrough(l, pos, v)

SpecNoFail == Init /\ [][NextNoFail]_vars

\* a caller that holds iterators across the single-node operations, none of
\* whose allocations fails
NextIter ==
  \/ \E l \in Lists : ConstructDefault(l)
  \/ \E l \in Lists : Destroy(l)
  \/ \E l \in Lists, v \in Values : DoPushFront(l, v, 1)
  \/ \E l \in Lists : DoPopFront(l)
  \/ \E l \in Lists, pos \in Refs, v \in Values : DoInsertAfter(l, pos, v, 1)
  \/ \E l \in Lists, pos \in Refs : DoEraseAfter(l, pos)
  \/ \E i \in Iters, l \in Lists : IterBeforeBegin(i, l)
  \/ \E i \in Iters, l \in Lists : IterBegin(i, l)
  \/ \E i \in Iters : IterEnd(i)
  \/ \E i \in Iters : IterIncrement(i)

SpecIter == Init /\ [][NextIter]_vars

\* ---- the lists as the caller sees them ----
ChainOf(l) == Chain(Cur, l)
ElemsOf(l) == Elems(Cur, l)
NodesOf(l) == Range(ChainOf(l))

\* ---- C1 ----
\* C1: for every existing list, GetSize() equals the number of nodes reached
\* by following next links from the sentinel (the sentinel excluded), and
\* IsEmpty() is true exactly when that number is 0.
SizeMatchesChain ==
  \A l \in exists :
    /\ GetSize(Cur, l) = Len(ChainOf(l))
    /\ IsEmpty(Cur, l) <=> (Len(ChainOf(l)) = 0)

\* two lists of two elements exist after a successful copy construction
SizeMatchesChainWitness ==
  /\ last.op = "CopyCtor" /\ ~last.threw
  /\ exists = Lists
  /\ \A l \in Lists : GetSize(Cur, l) = 2 /\ Len(ChainOf(l)) = 2

\* ---- C2 ----
\* C2: constructing a list from a sequence of values yields a list whose
\* traversal from begin() to end() gives exactly those values in the same
\* order, and whose size is the length of the sequence.
InitListOrder ==
  [][last'.op = "InitListCtor" /\ ~last'.threw =>
       \A l \in Lists, values \in SeqsUpTo(MaxLen), b \in 0..MaxLen :
         ConstructFromList(l, values, b) =>
           /\ ElemsOf(l)' = values
           /\ GetSize(Cur, l)' = Len(values)]_vars

InitListOrderWitness ==
  /\ last.op = "InitListCtor" /\ ~last.threw /\ last.news = 2
  /\ \E l \in exists : ElemsOf(l) = <<1, 2>>

\* ---- C3 ----
\* list o is exactly as before the step: same nodes in the same order, same
\* values, same size
Untouched(o) ==
  /\ ChainOf(o)' = ChainOf(o)
  /\ ElemsOf(o)' = ElemsOf(o)
  /\ GetSize(Cur, o)' = GetSize(Cur, o)

\* the step is a mutation of list l alone
Mutates(l) ==
  \/ last'.op = "PushFront" /\ \E v \in Values, b \in 0..1 : DoPushFront(l, v, b)
  \/ last'.op = "PopFront" /\ DoPopFront(l)
  \/ last'.op = "InsertAfter" /\
       \E pos \in Refs, v \in Values, b \in 0..1 : DoInsertAfter(l, pos, v, b)
  \/ last'.op = "EraseAfter" /\ \E pos \in Refs : DoEraseAfter(l, pos)
  \/ last'.op = "Clear" /\ DoClear(l)
  \/ last'.op = "operator*" /\ \E pos \in Nodes, v \in Values : WriteThrough(l, pos, v)

\* C3: a copy-constructed list has the size and the values of its source in
\* the same order, the source is unchanged and the two share no node; and a
\* mutation of one list (PushFront, PopFront, InsertAfter, EraseAfter, Clear,
\* a write through an iterator) leaves every other list unchanged.
CopyIsDeep ==
  [][/\ last'.op = "CopyCtor" /\ ~last'.threw =>
          \A l \in Lists, other \in Lists, b \in 0..MaxNodes :
            ConstructCopy(l, other, b) =>
              /\ ElemsOf(l)' = ElemsOf(other)
              /\ GetSize(Cur, l)' = GetSize(Cur, other)
              /\ Untouched(other)
              /\ NodesOf(l)' \cap NodesOf(other)' = {}
     /\ \A l \in Lists : Mutates(l) =>
          \A o \in exists \ {l} : Untouched(o)]_vars

\* a list of two elements has just been copied and both lists exist
CopyIsDeepWitness ==
  /\ last.op = "CopyCtor" /\ ~last.threw /\ last.news = 2
  /\ exists = Lists
  /\ \A l \in Lists : ElemsOf(l) = <<2, 1>>

\* ---- C4 ----
\* C4: when an allocation fails partway through construction from a sequence
\* of values, no node allocated by the earlier steps of that construction
\* remains allocated.
InitListNoLeak ==
  [][last'.op = "InitListCtor" /\ last'.threw => allocated' = allocated]_vars

\* ---- C5 ----
\* C5: when an allocation fails partway through the copy made by an
\* assignment from a different list, the target and the right-hand side keep
\* their nodes, values, order and size, and the nodes of the partial copy are
\* freed.
AssignStrongGuarantee ==
  [][last'.op = "Assign" /\ last'.threw =>
       /\ \A o \in exists : Untouched(o)
       /\ allocated' = allocated
       /\ value' = value
       /\ exists' = exists]_vars

\* an assignment has failed after its copy had already obtained a node
AssignStrongGuaranteeWitness ==
  /\ last.op = "Assign" /\ last.threw /\ last.news >= 1
  /\ exists = Lists
  /\ \E l \in Lists : Len(ChainOf(l)) >= 1

\* ---- C6 ----
\* C6: when an allocation fails partway through copy construction, the list
\* under construction still has size 0 and no nodes.
CopyCtorLeavesThisUnaffected ==
  last.op = "CopyCtor" /\ last.threw =>
    last.left.size_ = 0 /\ last.left.begin = nullptr

\* ---- C7 ----
\* p is end(), a node that has not been deleted, or the sentinel of a list
\* that exists
RefersToLive(p) ==
  p = nullptr \/ p \in allocated \/ \E l \in exists : p = head_(l)

\* iterator i references the same live node, holding the same value
StaysValid(i) ==
  /\ iter'[i] = iter[i]
  /\ RefersToLive(iter[i])'
  /\ iter[i] \in Nodes => value'[iter[i]] = value[iter[i]]

\* C7: InsertAfter leaves every held iterator referencing the same live node
\* with the same value; EraseAfter does so for every held iterator that did
\* not reference the erased node, and the iterators that referenced the
\* erased node, and only they, now reference a freed node.
IteratorsSurvive ==
  [][/\ last'.op = "InsertAfter" => \A i \in Iters \ dangling : StaysValid(i)
     /\ last'.op = "EraseAfter" =>
          \A l \in Lists, pos \in Refs : DoEraseAfter(l, pos) =>
            \A i \in Iters \ dangling :
              IF iter[i] = next_node[pos]
                THEN iter'[i] = iter[i] /\ iter[i] \notin allocated'
                ELSE StaysValid(i)]_vars

\* EraseAfter has just run and a held iterator references a freed node
IteratorsSurviveWitness ==
  /\ last.op = "EraseAfter"
  /\ \E i \in dangling : iter[i] \in Nodes \ allocated
  /\ \E l \in exists : Len(ChainOf(l)) = 1

\* ---- C8, C9 ----
\* the position of pos in list l: 0 for the sentinel, k for the k-th element
IndexOf(l, pos) ==
  IF pos = head_(l) THEN 0
  ELSE CHOOSE k \in 1..Len(ChainOf(l)) : ChainOf(l)[k] = pos

Without(seq, k) == [i \in 1..(Len(seq) - 1) |-> IF i < k THEN seq[i] ELSE seq[i + 1]]
WithAt(seq, k, x) ==
  [i \in 1..(Len(seq) + 1) |-> IF i < k THEN seq[i] ELSE IF i = k THEN x ELSE seq[i - 1]]

\* C8: EraseAfter(pos) removes exactly the node that follows pos, decreases
\* the size by 1, keeps the other elements with their values and order, and
\* returns an iterator to the node that now follows pos, which is end() when
\* the erased node was the last one.
EraseAfterRemovesNext ==
  [][last'.op = "EraseAfter" =>
       \A l \in Lists, pos \in Refs : DoEraseAfter(l, pos) =>
         LET k == IndexOf(l, pos) + 1
             c == ChainOf(l) IN
         /\ ChainOf(l)' = Without(c, k)
         /\ ElemsOf(l)' = Without(ElemsOf(l), k)
         /\ GetSize(Cur, l)' = GetSize(Cur, l) - 1
         /\ allocated' = allocated \ {c[k]}
         /\ last'.ret = next_node'[pos]
         /\ last'.ret = IF k = Len(c) THEN end ELSE c[k + 1]]_vars

\* the second of two elements has just been erased, the only nodes there
\* were: end() was returned
EraseAfterRemovesNextWitness ==
  /\ last.op = "EraseAfter" /\ last.ret = end
  /\ \E l \in exists : GetSize(Cur, l) = 1 /\ allocated = NodesOf(l)

\* C9: InsertAfter(pos, v) inserts exactly one new node holding v right after
\* pos, increases the size by 1, keeps the elements already present with
\* their values and order, and returns an iterator to the new node:
\* dereferencing it gives v and advancing pos once gives the same iterator.
InsertAfterAddsNext ==
  [][last'.op = "InsertAfter" /\ ~last'.threw =>
       \A l \in Lists, pos \in Refs, v \in Values, b \in 0..1 :
         DoInsertAfter(l, pos, v, b) =>
           LET k == IndexOf(l, pos) + 1
               n == last'.ret IN
           /\ n \in Nodes \ allocated
           /\ allocated' = allocated \cup {n}
           /\ ChainOf(l)' = WithAt(ChainOf(l), k, n)
           /\ ElemsOf(l)' = WithAt(ElemsOf(l), k, v)
           /\ GetSize(Cur, l)' = GetSize(Cur, l) + 1
           /\ value'[n] = v
           /\ next_node'[pos] = n]_vars

\* a value has just been inserted after a real element
InsertAfterAddsNextWitness ==
  /\ last.op = "InsertAfter" /\ ~last.threw /\ last.ret \in allocated
  /\ \E l \in exists :
       /\ Len(ChainOf(l)) = 2
       /\ ChainOf(l)[2] = last.ret
       /\ ElemsOf(l) = <<1, 2>>

\* ---- C10 ----
\* C10: A == B is true exactly when the sizes are equal and the elements at
\* every position are equal; A != B is the negation of A == B.
EqualityIsElementwise ==
  \A a \in exists, b \in exists :
    /\ operator_eq(Cur, a, b) <=>
         /\ GetSize(Cur, a) = GetSize(Cur, b)
         /\ \A i \in 1..GetSize(Cur, a) : ElemsOf(a)[i] = ElemsOf(b)[i]
    /\ operator_ne(Cur, a, b) <=> ~operator_eq(Cur, a, b)

\* two distinct lists of different lengths, one a prefix of the other
EqualityIsElementwiseWitness ==
  /\ exists = Lists
  /\ ElemsOf(1) = <<1>>
  /\ ElemsOf(2) = <<1, 2>>
  /\ operator_ne(Cur, 1, 2)

\* ---- C11 ----
\* C11: for all lists A and B exactly one of A < B, A == B, B < A holds.
Trichotomy ==
  \A a \in exists, b \in exists :
    LET lt == operator_lt(Cur, a, b)
        eq == operator_eq(Cur, a, b)
        gt == operator_lt(Cur, b, a) IN
    /\ lt \/ eq \/ gt
    /\ ~(lt /\ eq) /\ ~(lt /\ gt) /\ ~(eq /\ gt)

\* two lists that differ at their second element: B < A
TrichotomyWitness ==
  /\ exists = Lists
  /\ ElemsOf(1) = <<1, 2>>
  /\ ElemsOf(2) = <<1, 1>>
  /\ operator_lt(Cur, 2, 1)

\* ---- C12 ----
\* x is before y in the lexicographic order of sequences: x has the smaller
\* value at the first position where they differ, or no position differs
\* and x is strictly shorter
LexLess(x, y) ==
  \/ \E i \in 1..Len(x) :
       /\ i <= Len(y)
       /\ x[i] < y[i]
       /\ \A j \in 1..(i - 1) : x[j] = y[j]
  \/ /\ Len(x) < Len(y)
     /\ \A j \in 1..Len(x) : x[j] = y[j]

\* C12: A < B is the lexicographic order of the element sequences (a proper
\* prefix is less), A > B iff B < A, A <= B iff not (B < A), and A >= B iff
\* not (A < B).
OrderIsLexicographic ==
  \A a \in exists, b \in exists :
    /\ operator_lt(Cur, a, b) <=> LexLess(ElemsOf(a), ElemsOf(b))
    /\ operator_gt(Cur, a, b) <=> LexLess(ElemsOf(b), ElemsOf(a))
    /\ operator_le(Cur, a, b) <=> ~LexLess(ElemsOf(b), ElemsOf(a))
    /\ operator_ge(Cur, a, b) <=> ~LexLess(ElemsOf(a), ElemsOf(b))

\* a list that is a proper prefix of the other: A < B, A <= B, B > A, B >= A
OrderIsLexicographicWitness ==
  /\ exists = Lists
  /\ ElemsOf(1) = <<2>>
  /\ ElemsOf(2) = <<2, 1>>
  /\ operator_lt(Cur, 1, 2) /\ operator_le(Cur, 1, 2)
  /\ operator_gt(Cur, 2, 1) /\ operator_ge(Cur, 2, 1)

\* ---- C13 ----
\* C13: Swap, member or free function, gives each list the element sequence
\* and the size the other had, allocates and frees no node, and a second
\* Swap of the same two lists restores both.
SwapExchanges ==
  [][last'.op \in {"Swap", "Swap(lhs, rhs)"} =>
       \A a \in Lists, b \in Lists : DoSwap(a, b) \/ DoSwapFree(a, b) =>
         /\ ChainOf(a)' = ChainOf(b) /\ ChainOf(b)' = ChainOf(a)
         /\ ElemsOf(a)' = ElemsOf(b) /\ ElemsOf(b)' = ElemsOf(a)
         /\ GetSize(Cur, a)' = GetSize(Cur, b) /\ GetSize(Cur, b)' = GetSize(Cur, a)
         /\ allocated' = allocated /\ value' = value
         /\ last'.news = 0 /\ last'.frees = 0
         /\ Chain(Swap(Cur, a, b), a)' = ChainOf(a)
         /\ Chain(Swap(Cur, a, b), b)' = ChainOf(b)
         /\ GetSize(Swap(Cur, a, b), a)' = GetSize(Cur, a)
         /\ GetSize(Swap(Cur, a, b), b)' = GetSize(Cur, b)]_vars

\* the free function has just exchanged a list of two elements with an
\* empty one
SwapExchangesWitness ==
  /\ last.op = "Swap(lhs, rhs)"
  /\ exists = Lists
  /\ ElemsOf(1) = <<>> /\ GetSize(Cur, 1) = 0
  /\ ElemsOf(2) = <<1, 2>> /\ GetSize(Cur, 2) = 2

\* ---- C14 ----
\* C14: PushFront(v) followed by PopFront() gives back the element sequence
\* and the size the list had, and the node PushFront allocated is the node
\* PopFront frees.
PushThenPopRestores ==
  \A l \in exists, v \in Values :
    LET p == PushFront(Mem(1), l, v)
        q == PopFront(p, l) IN
    ~p.threw =>
      /\ Len(p.news) = 1
      /\ q.frees = p.news
      /\ Chain(q, l) = ChainOf(l)
      /\ Elems(q, l) = ElemsOf(l)
      /\ GetSize(q, l) = GetSize(Cur, l)
      /\ q.allocated = allocated

\* PopFront has just freed a node of a list that still has an element, and
\* a further PushFront followed by PopFront is possible on it
PushThenPopRestoresWitness ==
  /\ last.op = "PopFront" /\ last.frees = 1
  /\ \E l \in exists, v \in Values :
       /\ ElemsOf(l) = <<2>>
       /\ ~PushFront(Mem(1), l, v).threw
       /\ Chain(PushFront(Mem(1), l, v), l)[2] = ChainOf(l)[1]

\* ---- C15 ----
\* C15: InsertAfter(before_begin(), v) and PushFront(v) applied to equal
\* lists produce equal lists: v is the first element, the previous elements
\* follow in their order and the size grows by 1; on one and the same list
\* the two calls leave the same memory, and fail together.
InsertAtFrontIsPushFront ==
  \A a \in exists, b \in exists, v \in Values :
    /\ a /= b /\ operator_eq(Cur, a, b) =>
         LET p == PushFront(Mem(2), a, v)
             r == InsertAfter(p, b, before_begin(b), v) IN
         ~r.threw =>
           /\ operator_eq(r, a, b)
           /\ Elems(r, a) = <<v>> \o ElemsOf(a)
           /\ Elems(r, b) = <<v>> \o ElemsOf(b)
           /\ GetSize(r, a) = GetSize(Cur, a) + 1
           /\ GetSize(r, b) = GetSize(Cur, b) + 1
    /\ a = b =>
         \A f \in 0..1 :
           LET p == PushFront(Mem(f), a, v)
               q == InsertAfter(Mem(f), a, before_begin(a), v) IN
           /\ p.threw = q.threw
           /\ p.next_node = q.next_node /\ p.value = q.value
           /\ p.size_ = q.size_ /\ p.allocated = q.allocated
           /\ ~p.threw => Elems(q, a) = <<v>> \o ElemsOf(a)

\* InsertAfter(before_begin(), v) has just made a list equal to another list
\* of two elements
InsertAtFrontIsPushFrontWitness ==
  /\ last.op = "InsertAfter" /\ ~last.threw
  /\ exists = Lists
  /\ \E l \in Lists : begin(Cur, l) = last.ret
  /\ ElemsOf(1) = <<2, 1>>
  /\ operator_eq(Cur, 1, 2)

\* ---- C16 ----
\* C16: an assignment from a different list leaves the target equal to the
\* right-hand side, the right-hand side unchanged, no node shared, and every
\* node the target owned freed; a self-assignment changes no node, value or
\* size and allocates and frees nothing.
AssignCopiesAndFrees ==
  [][last'.op = "Assign" /\ ~last'.threw =>
       \A l \in Lists, rhs \in Lists, b \in 0..MaxNodes : DoAssign(l, rhs, b) =>
         IF l = rhs
           THEN /\ UNCHANGED <<next_node, value, allocated, size_>>
                /\ last'.news = 0 /\ last'.frees = 0
           ELSE /\ operator_eq(Cur, l, rhs)'
                /\ ElemsOf(l)' = ElemsOf(rhs)
                /\ GetSize(Cur, l)' = GetSize(Cur, rhs)
                /\ Untouched(rhs)
                /\ NodesOf(l)' \cap NodesOf(rhs)' = {}
                /\ NodesOf(l) \cap allocated' = {}
                /\ allocated' = (allocated \ NodesOf(l)) \cup NodesOf(l)'
                /\ last'.news = Len(ChainOf(rhs))
                /\ last'.frees = Len(ChainOf(l))]_vars

\* an assignment has just copied one element and freed the two elements the
\* target had
AssignCopiesAndFreesWitness ==
  /\ last.op = "Assign" /\ ~last.threw
  /\ last.news = 1 /\ last.frees = 2
  /\ exists = Lists
  /\ ElemsOf(1) = <<2>> /\ ElemsOf(2) = <<2>>

\* ---- C17 ----
\* C17: when the allocation made by PushFront or InsertAfter fails, the list
\* is as before the call: same nodes, same next links, same values, same
\* size.
SingleAllocationStrong ==
  [][last'.op \in {"PushFront", "InsertAfter"} /\ last'.threw =>
       /\ UNCHANGED <<next_node, value, allocated, size_, exists>>
       /\ last'.news = 0 /\ last'.frees = 0]_vars

\* InsertAfter has just failed on a list of one element
SingleAllocationStrongWitness ==
  /\ last.op = "InsertAfter" /\ last.threw
  /\ \E l \in exists : ElemsOf(l) = <<1>> /\ GetSize(Cur, l) = 1

\* ---- C18 ----
\* no node occurs twice in seq
NoRepeat(seq) == \A i \in 1..Len(seq), j \in 1..Len(seq) : seq[i] = seq[j] => i = j

\* C18: Clear() ends after one delete per element and leaves IsEmpty(),
\* GetSize() == 0 and begin() == end(); every real node the list had is
\* freed exactly once.
ClearFreesAll ==
  [][last'.op = "Clear" =>
       \A l \in Lists : DoClear(l) =>
         /\ IsEmpty(Cur, l)' /\ GetSize(Cur, l)' = 0
         /\ begin(Cur, l)' = end
         /\ Clear(Cur, l).frees = ChainOf(l)
         /\ NoRepeat(Clear(Cur, l).frees)
         /\ last'.frees = Len(ChainOf(l))
         /\ allocated' = allocated \ NodesOf(l)]_vars

\* Clear has just freed the two elements of a list
ClearFreesAllWitness ==
  /\ last.op = "Clear" /\ last.frees = 2
  /\ \E l \in exists : IsEmpty(Cur, l) /\ begin(Cur, l) = end

\* ---- C19 ----
\* C19: every live node is reached from the sentinel of at most one list and
\* has at most one predecessor, and the chain of every list ends at nullptr
\* without visiting a node twice.
SingleOwnerAcyclic ==
  /\ \A l \in exists :
       /\ Len(ChainOf(l)) <= MaxNodes
       /\ NoRepeat(ChainOf(l))
       /\ NodesOf(l) \subseteq allocated
       /\ ChainOf(l) /= <<>> => next_node[ChainOf(l)[Len(ChainOf(l))]] = nullptr
  /\ \A a \in exists, b \in exists : a /= b => NodesOf(a) \cap NodesOf(b) = {}
  /\ \A n \in allocated :
       Cardinality({r \in Refs : next_node[r] = n}) <= 1

\* the whole heap is in use by two lists, after an exchange
SingleOwnerAcyclicWitness ==
  /\ last.op = "Swap"
  /\ exists = Lists
  /\ allocated = Nodes
  /\ \A l \in Lists : Len(ChainOf(l)) = 2

\* ---- C20 ----
\* C20: while no allocation fails, after every call the nodes that are
\* allocated are exactly the nodes reached from the sentinels of the lists
\* that exist, the temporaries of copy construction and assignment hold
\* nothing, every delete is of an allocated node not yet deleted, and a
\* destructor frees each node of its list exactly once.
NoLeakNoDoubleFree ==
  [][/\ allocated' = (UNION {NodesOf(l) : l \in exists})'
     /\ begin(Cur, TempAssign)' = nullptr /\ begin(Cur, TempCopy)' = nullptr
     /\ Cardinality(allocated') = Cardinality(allocated) + last'.news - last'.frees
     /\ last'.op = "Destructor" =>
          \A l \in Lists : Destroy(l) =>
            /\ Destructor(Cur, l).frees = ChainOf(l)
            /\ NoRepeat(Destructor(Cur, l).frees)
            /\ allocated' = allocated \ NodesOf(l)]_vars

\* a destructor has just freed two nodes while the other list keeps its own
NoLeakNoDoubleFreeWitness ==
  /\ last.op = "Destructor" /\ last.frees = 2
  /\ Cardinality(exists) = 1
  /\ \E l \in exists : NodesOf(l) = allocated /\ Len(ChainOf(l)) = 2

====
